---- MODULE Spec2Model ----
(***************************************************************************)
(* Model of internal/libyaml/errors.go of go-yaml: the error values, the   *)
(* LoadErrors aggregate with its Error/As/Is methods, and the recovery of  *)
(* *YAMLError panics by handleErr at a public entry point.                 *)
(*                                                                         *)
(* Go values are named by strings: a name stands for one pointer (one      *)
(* allocation), so two names are two different pointers even when the      *)
(* objects they point to print the same text.                              *)
(***************************************************************************)
EXTENDS Integers, Sequences, FiniteSets, TLC

(***************************************************************************)
(* Bounds of the model.                                                    *)
(***************************************************************************)
\* number of load/emit calls that run concurrently, one goroutine each
NumCalls == 2
\* deepest frame, counted below the public entry point, that code runs in
MaxDepth == 3
\* longest Errors slice of a LoadErrors aggregate
MaxErrs == 3
\* largest line, column and index of the marks of a LoadError that is rendered
MaxLine == 4
MaxColumn == 2
MaxIndex == 1

(***************************************************************************)
(* The error values of the model.                                          *)
(***************************************************************************)
\* the nil interface value (a nil error, a nil panic argument)
Nil == "nil"

\* errors.New results: errX1 and errX2 are two allocations with the same text
ErrorStrings == {"errX1", "errX2", "errY"}

\* fmt.Errorf("wrap: %w", errY): its Unwrap() is errY
WrapErrors == {"wrapY"}

\* non-nil *YAMLError pointers: YAMLError{Err: errX1}, YAMLError{Err: nil} and
\* YAMLError{Err: yeX} (the Err field is of type error, which a *YAMLError
\* satisfies)
YAMLErrors == {"yeX", "yeNil", "yeNested"}

\* (*YAMLError)(nil): a nil pointer of the wrapper's type
NilYAMLError == "yeNilPtr"

\* the Err field of a non-nil *YAMLError
YAMLErrorErr(e) ==
  CASE e = "yeX" -> "errX1"
    [] e = "yeNil" -> Nil
    [] e = "yeNested" -> "yeX"

\* panic values that are no *YAMLError: a runtime.Error raised by a fault of
\* the code, the runtime's *PanicNilError, and the runtime.Error of a nil
\* pointer dereference
RuntimeError == "runtimeError"
PanicNilError == "PanicNilError"
NilDereference == "nilDereference"

\* the type assertion v.(*YAMLError) of handleErr: ok for every value whose
\* dynamic type is *YAMLError, a nil pointer of that type included
IsYAMLError(v) == v \in YAMLErrors \cup {NilYAMLError}

(***************************************************************************)
(* Public entry points and handleErr.                                      *)
(*                                                                         *)
(* A call is one goroutine running one public entry point                  *)
(*     func Entry(...) (err error) { defer handleErr(&err); body }         *)
(* The body runs frames below the entry point, may assign the named        *)
(* result, and may panic at any depth; a panic unwinds frame by frame to   *)
(* the entry point, whose deferred handleErr then runs.                    *)
(***************************************************************************)
Calls == 1..NumCalls

VARIABLES
  panicnil,   \* the build: TRUE when recover() reports a panic(nil) as nil
              \* (Go before 1.21, or GODEBUG=panicnil=1)
  pc,         \* pc[c]: "idle", "body", "panicking", "returned", "panicked"
  frames,     \* frames[c]: frames on c's stack below the entry point
  errSlot,    \* errSlot[c]: the entry point's named result err
  inflight,   \* inflight[c]: the value of c's panic in flight, else "none"
  raised      \* raised[c]: history of c's call to panic: its argument and
              \* the content of err at that moment

callVars == <<panicnil, pc, frames, errSlot, inflight, raised>>

VARIABLES
  Errors,   \* the Errors slice of the LoadErrors aggregate *e
  called,   \* the last method called on e, and its argument: the kind of
            \* the target of As, the target of Is
  text,     \* what the last call of Error returned
  ok,       \* what the last call of As or Is returned
  stored,   \* what the target of an As call points to after the call
  fault,    \* the run-time panic the last call ended with, "none" if it returned
  loadError \* the LoadError *e that Error and simpleError are called on

aggVars == <<Errors, called, text, ok, stored, fault, loadError>>

vars == <<callVars, aggVars>>

NoPanic == "none"
NotRaised == [val |-> NoPanic, before |-> Nil]

\* what a body may pass to panic
PanicArgs == YAMLErrors \cup {NilYAMLError, RuntimeError, Nil}

\* what a body may assign to err before it fails
BodyErrs == {Nil, "errY"}

CallInit ==
  /\ panicnil \in BOOLEAN
  /\ pc = [c \in Calls |-> "idle"]
  /\ frames = [c \in Calls |-> 0]
  /\ errSlot = [c \in Calls |-> Nil]
  /\ inflight = [c \in Calls |-> NoPanic]
  /\ raised = [c \in Calls |-> NotRaised]

\* the entry point is called: err is the zero value, handleErr is deferred
Enter(c) ==
  /\ pc[c] = "idle"
  /\ pc' = [pc EXCEPT ![c] = "body"]
  /\ UNCHANGED <<panicnil, frames, errSlot, inflight, raised>>
  /\ UNCHANGED aggVars

\* the body calls one frame deeper
Descend(c) ==
  /\ pc[c] = "body"
  /\ frames[c] < MaxDepth
  /\ frames' = [frames EXCEPT ![c] = @ + 1]
  /\ UNCHANGED <<panicnil, pc, errSlot, inflight, raised>>
  /\ UNCHANGED aggVars

\* an inner frame returns normally
Ascend(c) ==
  /\ pc[c] = "body"
  /\ frames[c] > 0
  /\ frames' = [frames EXCEPT ![c] = @ - 1]
  /\ UNCHANGED <<panicnil, pc, errSlot, inflight, raised>>
  /\ UNCHANGED aggVars

\* the entry point's own frame assigns its named result
AssignErr(c, e) ==
  /\ pc[c] = "body"
  /\ frames[c] = 0
  /\ errSlot[c] # e
  /\ errSlot' = [errSlot EXCEPT ![c] = e]
  /\ UNCHANGED <<panicnil, pc, frames, inflight, raised>>
  /\ UNCHANGED aggVars

\* the value a panic carries: since Go 1.21 the runtime turns panic(nil) into
\* a *PanicNilError unless the build sets panicnil
PanicValue(v) == IF v = Nil /\ ~panicnil THEN PanicNilError ELSE v

\* code at any depth calls panic(v)
Panic(c, v) ==
  /\ pc[c] = "body"
  /\ pc' = [pc EXCEPT ![c] = "panicking"]
  /\ inflight' = [inflight EXCEPT ![c] = PanicValue(v)]
  /\ raised' = [raised EXCEPT ![c] = [val |-> v, before |-> errSlot[c]]]
  /\ UNCHANGED <<panicnil, frames, errSlot>>
  /\ UNCHANGED aggVars

\* the panic leaves a frame below the entry point; those frames defer no
\* recovery
Unwind(c) ==
  /\ pc[c] = "panicking"
  /\ frames[c] > 0
  /\ frames' = [frames EXCEPT ![c] = @ - 1]
  /\ UNCHANGED <<panicnil, pc, errSlot, inflight, raised>>
  /\ UNCHANGED aggVars

\* a recover() that were process-wide: it reports whichever panic is in flight
recoverAny(c) ==
  IF \E d \in Calls : pc[d] = "panicking"
    THEN inflight[CHOOSE d \in Calls : pc[d] = "panicking"]
    ELSE Nil

\* recover() called by the deferred handleErr of call c: the value of the
\* panic in flight on c's goroutine, nil when there is none
recover(c) == IF pc[c] = "panicking" THEN inflight[c] ELSE Nil

\* handleErr's outcome for the recovered value v:
\* "return" (no panic, or the panic is absorbed), "repanic" (panic(v)) or
\* "fault" (e.Err dereferences a nil *YAMLError)
handleErrOutcome(v) ==
  IF v # Nil
    THEN IF IsYAMLError(v)
           THEN IF v = NilYAMLError THEN "fault" ELSE "return"
           ELSE "repanic"
    ELSE "return"

\* a handleErr that stored the payload only into an empty slot
handleErrKeepOld(v, old) ==
  IF v # Nil /\ IsYAMLError(v) /\ v # NilYAMLError /\ old = Nil
    THEN YAMLErrorErr(v) ELSE old

\* the error slot after handleErr, old being its content before
handleErrSlot(v, old) ==
  IF v # Nil /\ IsYAMLError(v) /\ v # NilYAMLError
    THEN YAMLErrorErr(v)
    ELSE old

\* the panic that leaves the entry point after handleErr
handleErrPanic(v) ==
  CASE handleErrOutcome(v) = "repanic" -> v
    [] handleErrOutcome(v) = "fault" -> NilDereference
    [] OTHER -> NoPanic

\* the entry point's frame ends, normally or by a panic that has unwound to
\* it, and its deferred handleErr(&err) runs
handleErr(c) ==
  /\ pc[c] \in {"body", "panicking"}
  /\ frames[c] = 0
  /\ LET v == recover(c) IN
       /\ errSlot' = [errSlot EXCEPT ![c] = handleErrSlot(v, @)]
       /\ inflight' = [inflight EXCEPT ![c] = handleErrPanic(v)]
       /\ pc' = [pc EXCEPT ![c] =
                   IF handleErrOutcome(v) = "return" THEN "returned"
                   ELSE "panicked"]
  /\ UNCHANGED <<panicnil, frames, raised>>
  /\ UNCHANGED aggVars

CallNext ==
  \E c \in Calls :
    \/ Enter(c)
    \/ Descend(c)
    \/ Ascend(c)
    \/ \E e \in BodyErrs : AssignErr(c, e)
    \/ \E v \in PanicArgs : Panic(c, v)
    \/ Unwind(c)
    \/ handleErr(c)

(***************************************************************************)
(* Position marks and LoadError.                                           *)
(***************************************************************************)
Mark(line, column, index) == [Line |-> line, Column |-> column, Index |-> index]

\* Mark.shortString(): the single-point text "line L, column C"
shortString(m) == "line " \o ToString(m.Line) \o ", column " \o ToString(m.Column)

\* Mark.String(), what %s prints for a mark: the single-point text
MarkString(m) == shortString(m)

\* Mark.rangeString(other): from-to text, the single point when both are equal
rangeString(m, other) ==
  IF m = other THEN shortString(m)
  ELSE shortString(m) \o "-" \o shortString(other)

\* the *LoadError values of the model, each a pointer (ptr) to a LoadError
NoMark == Mark(0, 0, 0)
LoadErrorPool ==
  { [ptr |-> "le1", Stage |-> "constructor", Message |-> "cannot construct",
     Mark |-> Mark(7, 3, 40), ContextMark |-> NoMark, ContextMsg |-> "",
     Err |-> "errX1"],
    [ptr |-> "le2", Stage |-> "constructor", Message |-> "wrong type",
     Mark |-> Mark(1, 5, 9), ContextMark |-> NoMark, ContextMsg |-> "",
     Err |-> "errX2"],
    [ptr |-> "le3", Stage |-> "parser", Message |-> "bad indentation",
     Mark |-> NoMark, ContextMark |-> NoMark, ContextMsg |-> "",
     Err |-> Nil],
    [ptr |-> "le4", Stage |-> "scanner", Message |-> "unexpected end",
     Mark |-> Mark(3, 2, 20), ContextMark |-> Mark(2, 1, 10),
     ContextMsg |-> "while scanning", Err |-> "errY"],
    [ptr |-> "le5", Stage |-> "parser", Message |-> "missing key",
     Mark |-> Mark(4, 6, 30), ContextMark |-> Mark(4, 6, 30),
     ContextMsg |-> "while parsing", Err |-> "wrapY"] }

LoadErrorPtrs == {e.ptr : e \in LoadErrorPool}
LoadErrorAt(p) == CHOOSE e \in LoadErrorPool : e.ptr = p

\* Error() with the range taken from the mark to the context mark
LoadErrorErrorRangeSwapped(e) ==
  "go-yaml Load error: " \o e.Message \o "\n  in " \o e.Stage \o
  (IF e.ContextMsg # ""
     THEN " (" \o e.ContextMsg \o ") at " \o rangeString(e.Mark, e.ContextMark)
     ELSE " at " \o shortString(e.Mark))

\* (*LoadError).Error()
LoadErrorError(e) ==
  "go-yaml Load error: " \o e.Message \o "\n  in " \o e.Stage \o
  (IF e.ContextMsg # ""
     THEN " (" \o e.ContextMsg \o ") at " \o rangeString(e.ContextMark, e.Mark)
     ELSE " at " \o shortString(e.Mark))

\* simpleError() that writes the position segment in every case
simpleErrorAlwaysPosition(e) ==
  (IF e.ContextMsg # ""
     THEN e.ContextMsg \o " at " \o MarkString(e.ContextMark) \o ": "
     ELSE "") \o
  (IF e.Mark.Line > 0
     THEN "line " \o ToString(e.Mark.Line) \o ": "
     ELSE "<unknown position>: ") \o
  e.Message

\* (*LoadError).simpleError()
simpleError(e) ==
  (IF e.ContextMsg # ""
     THEN e.ContextMsg \o " at " \o MarkString(e.ContextMark) \o ": "
     ELSE "") \o
  (IF e.ContextMsg = "" \/ e.ContextMark # e.Mark
     THEN IF e.Mark.Line > 0
            THEN "line " \o ToString(e.Mark.Line) \o ": "
            ELSE "<unknown position>: "
     ELSE "") \o
  e.Message

\* (*LoadError).Unwrap(), and the Unwrap() of the other error values: NoUnwrap
\* for a type without the method
NoUnwrap == "no Unwrap method"
Unwrap(a) ==
  CASE a \in LoadErrorPtrs -> LoadErrorAt(a).Err
    [] a = "wrapY" -> "errY"
    [] OTHER -> NoUnwrap

\* the Error() text of an error value
ErrorText(a) ==
  CASE a \in {"errX1", "errX2"} -> "X"
    [] a = "errY" -> "Y"
    [] a = "wrapY" -> "wrap: Y"
    [] a \in LoadErrorPtrs -> LoadErrorError(LoadErrorAt(a))

\* errors.Is(err, target) of the standard library: walk err's Unwrap chain and
\* compare each link with the target (pointers compare by identity); none of
\* the model's types has an Is method
RECURSIVE errorsIsChain(_, _)
errorsIsChain(err, target) ==
  IF err = target THEN TRUE
  ELSE LET next == Unwrap(err) IN
         IF next = NoUnwrap \/ next = Nil THEN FALSE
         ELSE errorsIsChain(next, target)

\* a match of the element's cause with the target by message text
errorsIsByText(err, target) ==
  /\ err # Nil /\ target # Nil
  /\ Unwrap(err) \notin {NoUnwrap, Nil}
  /\ ErrorText(Unwrap(err)) = ErrorText(target)

\* errors.Is(err, target)
errorsIs(err, target) ==
  IF err = Nil \/ target = Nil THEN err = target
  ELSE errorsIsChain(err, target)

(***************************************************************************)
(* LoadErrors: Error, As, Is.                                              *)
(***************************************************************************)
\* (*LoadErrors).Error(): the builder b after the loop has run from element i
RECURSIVE ErrorLoop(_, _, _)
ErrorLoop(b, errors, i) ==
  IF i > Len(errors) THEN b
  ELSE ErrorLoop(b \o "\n  " \o simpleError(errors[i]), errors, i + 1)

\* an Error() that listed the newest element first
LoadErrorsErrorNewestFirst(errors) ==
  ErrorLoop("yaml: construct errors:",
            [i \in 1..Len(errors) |-> errors[Len(errors) + 1 - i]], 1)

\* (*LoadErrors).Error()
LoadErrorsError(errors) == ErrorLoop("yaml: construct errors:", errors, 1)

\* a view with Line and Column exchanged
ConstructErrorOfSwapped(first) ==
  [type |-> "*ConstructError", Err |-> first.Err,
   Line |-> first.Mark.Column, Column |-> first.Mark.Line]

\* the *ConstructError that As builds from the first element
ConstructErrorOf(first) ==
  [type |-> "*ConstructError", Err |-> first.Err,
   Line |-> first.Mark.Line, Column |-> first.Mark.Column]

\* the msgs slice that As builds for a *TypeError: the loop from element i
RECURSIVE MsgsLoop(_, _, _)
MsgsLoop(msgs, errors, i) ==
  IF i > Len(errors) THEN msgs
  ELSE MsgsLoop(Append(msgs, simpleError(errors[i])), errors, i + 1)

\* a loop that started at the second element
TypeErrorMsgsSkipFirst(errors) == MsgsLoop(<<>>, errors, 2)

\* the msgs slice of the *TypeError
TypeErrorMsgs(errors) == MsgsLoop(<<>>, errors, 1)

\* the kinds of target As is called with: pointers to *LoadError,
\* *ConstructError, *TypeError, and to types As has no case for
AsKinds == {"**LoadError", "**ConstructError", "**TypeError",
            "**YAMLError", "*EmitterError"}

\* what a target points to before As has stored anything
NilPointer == [type |-> "nil"]

\* an As that failed on an empty aggregate for every kind of target
LoadErrorsAsNeedsElement(errors, kind, old) ==
  IF Len(errors) = 0 \/ kind \notin {"**LoadError", "**ConstructError", "**TypeError"}
    THEN [ok |-> FALSE, stored |-> old]
    ELSE [ok |-> TRUE,
          stored |-> CASE kind = "**LoadError" ->
                            [type |-> "*LoadError", ptr |-> errors[1].ptr]
                       [] kind = "**ConstructError" -> ConstructErrorOf(errors[1])
                       [] kind = "**TypeError" ->
                            [type |-> "*TypeError", Errors |-> TypeErrorMsgs(errors)]]

\* an As that stored a copy of the first element
LoadErrorsAsCopy(errors, kind, old) ==
  CASE kind = "**LoadError" ->
         IF Len(errors) = 0 THEN [ok |-> FALSE, stored |-> old]
         ELSE [ok |-> TRUE,
               stored |-> [type |-> "*LoadError", ptr |-> "copy"]]
    [] kind = "**ConstructError" ->
         IF Len(errors) = 0 THEN [ok |-> FALSE, stored |-> old]
         ELSE [ok |-> TRUE, stored |-> ConstructErrorOf(errors[1])]
    [] kind = "**TypeError" ->
         [ok |-> TRUE,
          stored |-> [type |-> "*TypeError", Errors |-> TypeErrorMsgs(errors)]]
    [] OTHER -> [ok |-> FALSE, stored |-> old]

\* (*LoadErrors).As(target): [ok |-> the result, stored |-> *target after it],
\* old being *target before
LoadErrorsAs(errors, kind, old) ==
  CASE kind = "**LoadError" ->
         IF Len(errors) = 0 THEN [ok |-> FALSE, stored |-> old]
         ELSE [ok |-> TRUE,
               stored |-> [type |-> "*LoadError", ptr |-> errors[1].ptr]]
    [] kind = "**ConstructError" ->
         IF Len(errors) = 0 THEN [ok |-> FALSE, stored |-> old]
         ELSE [ok |-> TRUE, stored |-> ConstructErrorOf(errors[1])]
    [] kind = "**TypeError" ->
         [ok |-> TRUE,
          stored |-> [type |-> "*TypeError", Errors |-> TypeErrorMsgs(errors)]]
    [] OTHER -> [ok |-> FALSE, stored |-> old]

\* a loop that matched by message text
RECURSIVE IsLoopByText(_, _, _)
IsLoopByText(errors, target, i) ==
  IF i > Len(errors) THEN FALSE
  ELSE IF errorsIsByText(errors[i].ptr, target) THEN TRUE
  ELSE IsLoopByText(errors, target, i + 1)

\* (*LoadErrors).Is(target): the loop from element i
RECURSIVE IsLoop(_, _, _)
IsLoop(errors, target, i) ==
  IF i > Len(errors) THEN FALSE
  ELSE IF errorsIs(errors[i].ptr, target) THEN TRUE
  ELSE IsLoop(errors, target, i + 1)

LoadErrorsIsByText(errors, target) == IsLoopByText(errors, target, 1)

\* (*LoadErrors).Is(target)
LoadErrorsIs(errors, target) == IsLoop(errors, target, 1)

\* the targets Is is called with
IsTargets == ErrorStrings \cup WrapErrors \cup LoadErrorPtrs

NoCall == [method |-> "none", arg |-> "none"]
NoFault == "none"

\* LoadError{}: the zero value
ZeroLoadError ==
  [ptr |-> "le0", Stage |-> "", Message |-> "", Mark |-> NoMark,
   ContextMark |-> NoMark, ContextMsg |-> "", Err |-> Nil]

\* every slice of at most MaxErrs elements, in every order
Aggregates == UNION {[1..n -> LoadErrorPool] : n \in 0..MaxErrs}

AggInit ==
  /\ Errors \in Aggregates
  /\ called = NoCall
  /\ text = ""
  /\ ok = FALSE
  /\ stored = NilPointer
  /\ fault = NoFault
  /\ loadError = ZeroLoadError

\* s := e.Error()
CallError ==
  /\ called' = [method |-> "Error", arg |-> "none"]
  /\ text' = LoadErrorsError(Errors)
  /\ ok' = FALSE
  /\ stored' = NilPointer
  /\ fault' = NoFault
  /\ UNCHANGED <<Errors, loadError, callVars>>

\* var t T; ok := e.As(&t)
CallAs(kind) ==
  /\ called' = [method |-> "As", arg |-> kind]
  /\ LET r == LoadErrorsAs(Errors, kind, NilPointer) IN
       /\ ok' = r.ok
       /\ stored' = r.stored
  /\ text' = ""
  /\ fault' = NoFault
  /\ UNCHANGED <<Errors, loadError, callVars>>

\* ok := e.Is(target)
CallIs(target) ==
  /\ called' = [method |-> "Is", arg |-> target]
  /\ ok' = LoadErrorsIs(Errors, target)
  /\ text' = ""
  /\ stored' = NilPointer
  /\ fault' = NoFault
  /\ UNCHANGED <<Errors, loadError, callVars>>

AggNext ==
  \/ CallError
  \/ \E kind \in AsKinds : CallAs(kind)
  \/ \E target \in IsTargets : CallIs(target)

(***************************************************************************)
(* The values As stores: using them after the call.                        *)
(***************************************************************************)
\* the address of the object a stored pointer points to: the element's own
\* address for *t = e.Errors[0], a new object for &ConstructError{...} and
\* &TypeError{...}
NewObject == "new"
TargetAddress(t) == IF t.type = "*LoadError" THEN t.ptr ELSE NewObject

\* the message a caller writes through a *LoadError it holds
EditedMessage == "edited"

\* a caller changes the object its target points to: t.Message = "edited" for
\* a *LoadError, t.Err = nil for a *ConstructError, t.Errors = nil for a
\* *TypeError. Every element of the aggregate at that address changes with it.
WriteThroughTarget ==
  /\ called.method = "As" /\ ok
  /\ LET a == TargetAddress(stored) IN
       /\ \A i \in DOMAIN Errors :
            Errors[i].ptr = a => Errors[i].Message # EditedMessage
       /\ Errors' = [i \in DOMAIN Errors |->
                       IF Errors[i].ptr = a
                         THEN [Errors[i] EXCEPT !.Message = EditedMessage]
                         ELSE Errors[i]]
  /\ stored' = CASE stored.type = "*ConstructError" -> [stored EXCEPT !.Err = Nil]
                  [] stored.type = "*TypeError" -> [stored EXCEPT !.Errors = <<>>]
                  [] OTHER -> stored
  /\ called' = [method |-> "write", arg |-> stored.type]
  /\ text' = ""
  /\ ok' = FALSE
  /\ fault' = NoFault
  /\ UNCHANGED <<loadError, callVars>>

\* (*ConstructError).Error(): e.Err.Error() is a call on a nil interface when
\* Err is nil, a run-time panic
ConstructErrorError(e) ==
  IF e.Err = Nil
    THEN [text |-> "", fault |-> NilDereference]
    ELSE [text |-> "line " \o ToString(e.Line) \o ": " \o ErrorText(e.Err),
          fault |-> NoFault]

\* s := t.Error() on the *ConstructError that As has just stored
CallConstructErrorError ==
  /\ called.method = "As" /\ called.arg = "**ConstructError" /\ ok
  /\ called' = [method |-> "ConstructError.Error", arg |-> "none"]
  /\ LET r == ConstructErrorError(stored) IN
       /\ text' = r.text
       /\ fault' = r.fault
  /\ UNCHANGED <<Errors, ok, stored, loadError, callVars>>

ViewNext ==
  \/ AggNext
  \/ WriteThroughTarget
  \/ CallConstructErrorError

(***************************************************************************)
(* One LoadError: Error and simpleError.                                   *)
(***************************************************************************)
\* the marks a rendered LoadError may carry
Marks ==
  {Mark(l, c, i) : l \in 0..MaxLine, c \in 0..MaxColumn, i \in 0..MaxIndex}

\* the LoadError values that are rendered: every pair of marks, with and
\* without a context message, a message with and without a line break
LoadErrorValues ==
  [ptr : {"le"}, Stage : {"parser", "constructor"},
   Message : {"bad indentation", "did not find\nexpected key"},
   Mark : Marks, ContextMark : Marks,
   ContextMsg : {"", "while parsing"}, Err : {Nil}]

LoadErrorInit ==
  /\ loadError \in LoadErrorValues
  /\ Errors = <<>> /\ called = NoCall /\ text = "" /\ ok = FALSE
  /\ stored = NilPointer /\ fault = NoFault

\* s := e.Error() on the LoadError
CallLoadErrorError ==
  /\ called' = [method |-> "LoadError.Error", arg |-> "none"]
  /\ text' = LoadErrorError(loadError)
  /\ UNCHANGED <<Errors, ok, stored, fault, loadError, callVars>>

\* s := e.simpleError() on the LoadError
CallSimpleError ==
  /\ called' = [method |-> "LoadError.simpleError", arg |-> "none"]
  /\ text' = simpleError(loadError)
  /\ UNCHANGED <<Errors, ok, stored, fault, loadError, callVars>>

LoadErrorNext ==
  \/ CallLoadErrorError
  \/ CallSimpleError

(***************************************************************************)
(* Specifications.                                                         *)
(***************************************************************************)
\* the calls of the public entry points, with an aggregate nobody uses
Init ==
  /\ CallInit
  /\ Errors = <<>> /\ called = NoCall /\ text = "" /\ ok = FALSE
  /\ stored = NilPointer /\ fault = NoFault /\ loadError = ZeroLoadError
Next == CallNext
Spec == Init /\ [][Next]_vars

\* the methods of one aggregate, with no call of an entry point running
AggSpecInit == AggInit /\ CallInit /\ panicnil = FALSE
AggSpecNext == AggNext
AggSpec == AggSpecInit /\ [][AggSpecNext]_vars

\* one aggregate, its methods and the use of what As stored
ViewSpec == AggSpecInit /\ [][ViewNext]_vars

\* the two renderings of one LoadError
LoadErrorSpecInit == LoadErrorInit /\ CallInit /\ panicnil = FALSE
LoadErrorSpec == LoadErrorSpecInit /\ [][LoadErrorNext]_vars

(***************************************************************************)
(* Properties of the entry points (specification Spec).                    *)
(***************************************************************************)
\* handleErr has run in call c
Finished(c) == pc[c] \in {"returned", "panicked"}

\* C1: a call whose code panicked with a non-nil *YAMLError, at whatever depth,
\* ends by returning normally, with no panic left in flight and with err equal
\* to the wrapper's Err, whatever err held when the panic was raised.
C1_WrapperPanicReturnsPayload ==
  \A c \in Calls :
    (Finished(c) /\ raised[c].val \in YAMLErrors) =>
      /\ pc[c] = "returned"
      /\ inflight[c] = NoPanic
      /\ errSlot[c] = YAMLErrorErr(raised[c].val)

\* C1 witness: a call that held errY in err, panicked with YAMLError{errX1}
\* and has returned errX1.
C1_Witness ==
  \E c \in Calls :
    /\ pc[c] = "returned"
    /\ raised[c].val = "yeX"
    /\ raised[c].before = "errY"
    /\ errSlot[c] = "errX1"

\* C2: a call whose code panicked with a value that is no *YAMLError ends with
\* that same value re-raised out of the entry point and err as it was; it
\* never returns normally.
C2_OtherPanicsReRaised ==
  \A c \in Calls :
    (Finished(c) /\ raised[c].val # NoPanic /\ ~IsYAMLError(raised[c].val)) =>
      /\ pc[c] = "panicked"
      /\ inflight[c] = PanicValue(raised[c].val)
      /\ errSlot[c] = raised[c].before

\* C3: the error an entry point returns is never a *YAMLError.
C3_NoWrapperReturned ==
  \A c \in Calls : pc[c] = "returned" => ~IsYAMLError(errSlot[c])

\* C4: a call that returns after handleErr absorbed a *YAMLError panic returns
\* a non-nil error.
C4_AbsorbedPanicLeavesError ==
  \A c \in Calls :
    (pc[c] = "returned" /\ raised[c].val \in YAMLErrors) => errSlot[c] # Nil

\* C5: recovery is call-local. In every step in which call c ends (its
\* handleErr runs), the outcome is decided by c's own panic alone: err becomes
\* the Err of c's own *YAMLError panic and is otherwise left as it was, c
\* returns normally only if it was not panicking or its own panic was one
\* handleErr absorbs, and the pc, err and panic of every other call stay as
\* they were.
C5_RecoveryIsCallLocal ==
  [][\A c \in Calls :
       (~Finished(c) /\ Finished(c)') =>
         /\ errSlot'[c] =
              (IF pc[c] = "panicking" /\ inflight[c] \in YAMLErrors
                 THEN YAMLErrorErr(inflight[c]) ELSE errSlot[c])
         /\ (pc'[c] = "returned") =
              (pc[c] = "body" \/ inflight[c] \in YAMLErrors \cup {Nil})
         /\ \A d \in Calls \ {c} :
              /\ pc'[d] = pc[d]
              /\ errSlot'[d] = errSlot[d]
              /\ inflight'[d] = inflight[d]
              /\ frames'[d] = frames[d]]_vars

\* C5 witness: one call has absorbed its own YAMLError{errX1} and returned
\* errX1 while another call's panic with YAMLError{yeX} is still in flight and
\* that call's err is untouched.
C5_Witness ==
  \E c, d \in Calls :
    /\ c # d
    /\ pc[c] = "returned" /\ raised[c].val = "yeX" /\ errSlot[c] = "errX1"
    /\ pc[d] = "panicking" /\ inflight[d] = "yeNested" /\ errSlot[d] = Nil

(***************************************************************************)
(* Properties of the aggregate (specification AggSpec).                    *)
(***************************************************************************)
\* C6: As succeeds with a *LoadError target iff the aggregate is non-empty,
\* with a *ConstructError target iff it is non-empty, with a *TypeError target
\* always (storing zero messages for an empty aggregate), and never with a
\* target of another kind.
C6_AsSucceedsByKind ==
  called.method = "As" =>
    /\ ok = ( \/ (called.arg = "**LoadError" /\ Len(Errors) > 0)
              \/ (called.arg = "**ConstructError" /\ Len(Errors) > 0)
              \/ called.arg = "**TypeError" )
    /\ (called.arg = "**TypeError" /\ Len(Errors) = 0) =>
         (stored.type = "*TypeError" /\ Len(stored.Errors) = 0)

\* C6 witness: As with a *TypeError target has succeeded on an empty aggregate.
C6_Witness ==
  /\ called.method = "As" /\ called.arg = "**TypeError"
  /\ Len(Errors) = 0
  /\ ok = TRUE

\* C7: on a non-empty aggregate As with a *ConstructError target stores a
\* view of element 0: its Err, its Mark.Line and its Mark.Column.
C7_ConstructErrorFromFirst ==
  (called.method = "As" /\ called.arg = "**ConstructError" /\ Len(Errors) > 0) =>
    /\ ok = TRUE
    /\ stored.type = "*ConstructError"
    /\ stored.Err = Errors[1].Err
    /\ stored.Line = Errors[1].Mark.Line
    /\ stored.Column = Errors[1].Mark.Column

\* C7 witness: the aggregate's element 0 has a cause that prints "X" and mark
\* line 7, later elements have other causes and marks, and the view stored
\* has that cause and line 7.
C7_Witness ==
  /\ called.method = "As" /\ called.arg = "**ConstructError"
  /\ Len(Errors) = 3
  /\ Errors[1].ptr = "le1" /\ Errors[2].ptr = "le4" /\ Errors[3].ptr = "le3"
  /\ stored.type = "*ConstructError"
  /\ ErrorText(stored.Err) = "X" /\ stored.Line = 7 /\ stored.Column = 3

\* C8: As with a *TypeError target stores as many messages as the aggregate
\* has elements, the i-th being simpleError() of the i-th element.
C8_TypeErrorMapsEveryElement ==
  (called.method = "As" /\ called.arg = "**TypeError") =>
    /\ stored.type = "*TypeError"
    /\ Len(stored.Errors) = Len(Errors)
    /\ \A i \in 1..Len(Errors) : stored.Errors[i] = simpleError(Errors[i])

\* C8 witness: three elements with three different messages, stored in order.
C8_Witness ==
  /\ called.method = "As" /\ called.arg = "**TypeError"
  /\ Len(Errors) = 3
  /\ stored.Errors = << "line 1: wrong type",
                        "<unknown position>: bad indentation",
                        "line 7: cannot construct" >>

\* the error values on the Unwrap chain of a, a included
RECURSIVE UnwrapChain(_)
UnwrapChain(a) ==
  IF a \in {Nil, NoUnwrap} THEN {} ELSE {a} \cup UnwrapChain(Unwrap(a))

RECURSIVE Concat(_)
Concat(ss) == IF ss = <<>> THEN "" ELSE Head(ss) \o Concat(Tail(ss))

\* C10: Error() is the header followed, for each element in order, by
\* "\n  " and the element's simpleError(): exactly the header for an empty
\* aggregate, n segments for n elements.
C10_ErrorIsHeaderPlusLines ==
  called.method = "Error" =>
    /\ text = "yaml: construct errors:" \o
             Concat([i \in 1..Len(Errors) |-> "\n  " \o simpleError(Errors[i])])
    /\ (Len(Errors) = 0 => text = "yaml: construct errors:")

\* C10 witness: an aggregate of two elements has been rendered, in order.
C10_Witness ==
  /\ called.method = "Error"
  /\ Len(Errors) = 2
  /\ text = "yaml: construct errors:\n  line 7: cannot construct\n  line 1: wrong type"

\* C11: for every LoadError, Error() is the prefix, the message, "\n  in " and
\* the stage, followed by exactly one location suffix: " at " and the short
\* text of Mark when ContextMsg is empty; " (", ContextMsg, ") at " and the
\* range from ContextMark to Mark when ContextMsg is set, and that range is
\* the short text of Mark alone when ContextMark equals Mark.
C11_ErrorIsHeadPlusOneSuffix ==
  called.method = "LoadError.Error" =>
    LET e == loadError
        head == "go-yaml Load error: " \o e.Message \o "\n  in " \o e.Stage
        ctx == " (" \o e.ContextMsg \o ") at "
    IN /\ e.ContextMsg = "" => text = head \o " at " \o shortString(e.Mark)
       /\ e.ContextMsg # "" =>
            text = head \o ctx \o rangeString(e.ContextMark, e.Mark)
       /\ (e.ContextMsg # "" /\ e.ContextMark = e.Mark) =>
            text = head \o ctx \o shortString(e.Mark)
       /\ (e.ContextMsg # "" /\ e.ContextMark # e.Mark) =>
            text # head \o ctx \o shortString(e.Mark)

\* C11 witness: a LoadError whose context mark equals its mark has been
\* rendered, the range collapsed to one point.
C11_Witness ==
  /\ called.method = "LoadError.Error"
  /\ loadError.Stage = "parser"
  /\ loadError.ContextMsg = "while parsing"
  /\ loadError.ContextMark = Mark(4, 2, 1)
  /\ loadError.Mark = Mark(4, 2, 1)
  /\ text = "go-yaml Load error: bad indentation\n  in parser (while parsing) at line 4, column 2"

\* the position segment of simpleError(): the line of Mark when it is known
PositionSegment(e) ==
  IF e.Mark.Line > 0 THEN "line " \o ToString(e.Mark.Line) \o ": "
  ELSE "<unknown position>: "

\* the context prefix of simpleError()
ContextPrefix(e) == e.ContextMsg \o " at " \o MarkString(e.ContextMark) \o ": "

\* C12 as stated: for every LoadError, simpleError() is the context prefix,
\* present exactly when ContextMsg is set and ContextMark differs from Mark,
\* then the position segment, always present, then Message.
C12_PrefixOnlyWhenMarksDiffer ==
  called.method = "LoadError.simpleError" =>
    LET e == loadError
    IN text = (IF e.ContextMsg # "" /\ e.ContextMark # e.Mark
                 THEN ContextPrefix(e) ELSE "")
              \o PositionSegment(e) \o e.Message

\* C12 amended: for every LoadError, simpleError() is the context prefix,
\* present exactly when ContextMsg is set (whether or not the marks differ),
\* then the position segment, present exactly when ContextMsg is empty or
\* ContextMark differs from Mark, then Message.
C12_PrefixWhenContextSet ==
  called.method = "LoadError.simpleError" =>
    LET e == loadError
    IN /\ e.ContextMsg = "" => text = PositionSegment(e) \o e.Message
       /\ (e.ContextMsg # "" /\ e.ContextMark # e.Mark) =>
            text = ContextPrefix(e) \o PositionSegment(e) \o e.Message
       /\ (e.ContextMsg # "" /\ e.ContextMark = e.Mark) =>
            text = ContextPrefix(e) \o e.Message

\* C12 witness: simpleError() of a LoadError whose context mark equals its
\* mark: the prefix is written and the position segment is not.
C12_Witness ==
  /\ called.method = "LoadError.simpleError"
  /\ loadError.ContextMsg = "while parsing"
  /\ loadError.ContextMark = Mark(4, 2, 1)
  /\ loadError.Mark = Mark(4, 2, 1)
  /\ text = "while parsing at line 4, column 2: bad indentation"

\* C13 as stated: whatever a successful As has stored, the target points to
\* no *LoadError that is an element of the aggregate's Errors.
C13_NoTargetSharesElement ==
  (called.method = "As" /\ ok) =>
    \A i \in DOMAIN Errors : Errors[i].ptr # TargetAddress(stored)

\* C13 amended: a *LoadError target receives element 0 itself, so a change
\* made through it changes the aggregate (element 0 now reads as written);
\* a *ConstructError or *TypeError target receives a new object, and a
\* change made through it leaves the aggregate as it was.
C13_OnlyLoadErrorTargetShares ==
  [][called'.method = "write" =>
       IF stored.type = "*LoadError"
         THEN /\ stored.ptr = Errors[1].ptr
              /\ Errors' # Errors
              /\ Errors'[1].Message = EditedMessage
         ELSE /\ stored.type \in {"*ConstructError", "*TypeError"}
              /\ Errors' = Errors]_vars

\* C13 witness: a caller has written through the *LoadError that As stored,
\* and element 0 of a two-element aggregate carries the written message.
C13_Witness ==
  /\ called = [method |-> "write", arg |-> "*LoadError"]
  /\ Len(Errors) = 2
  /\ Errors[1].Message = EditedMessage
  /\ Errors[2].Message # EditedMessage

\* C14 as stated: for every non-empty aggregate, one whose element 0 has a nil
\* Err included, Error() on the *ConstructError that As stored returns
\* "line <Line>: <cause message>" and does not end in a run-time panic.
C14_ViewErrorRenders ==
  called.method = "ConstructError.Error" =>
    /\ fault = NoFault
    /\ text = "line " \o ToString(Errors[1].Mark.Line) \o ": "
                \o ErrorText(Errors[1].Err)
====
